---------------------------- MODULE Spec2Model ----------------------------
(***************************************************************************)
(* Client-side form validation: the rule engine (validate), the form       *)
(* aggregator (validateForm, isFormValid, getValidationType) and the DOM   *)
(* adapter (blur / input / submit handlers and the success-message timer). *)
(*                                                                         *)
(* A JavaScript string is a sequence of UTF-16 code units; here a string   *)
(* VALUE is a sequence of one-character TLA+ strings (<<"a", "@">>), so    *)
(* that length, trimming and regular-expression matching are computed.     *)
(* Field names, type names and error messages are TLA+ strings.            *)
(*                                                                         *)
(* The repository holds two variants of the validation module: the base    *)
(* one (five types, validateForm enumerates four field names) and the      *)
(* extended one (adds phone, address, age; validateForm walks every key).  *)
(* The variable "variant" says which one is loaded.                        *)
(***************************************************************************)
EXTENDS Integers, Sequences, FiniteSets, TLC

VARIABLES
    variant,        \* "base" | "extended": which validation module is loaded
    adapter,        \* "script" | "part_001": which adapter script is loaded
    call,           \* the last direct call of an exported function (its arguments)
    ret,            \* NoReturn before the call, then Return(what it returned or threw)
    inputs,         \* DOM: input name -> [value, classes]
    errorText,      \* DOM: input name -> textContent of its "<id>-error" element
    missingErrorEl, \* DOM: the inputs that have no "<id>-error" element
    successHidden,  \* DOM: successMessage.classList contains "hidden"
    timers,         \* pending setTimeout callbacks, oldest first
    lastEvent       \* the event whose handler ran last

vars == <<variant, adapter, call, ret, inputs, errorText, missingErrorEl,
          successHidden, timers, lastEvent>>

domVars == <<inputs, errorText, missingErrorEl, successHidden, timers, lastEvent>>

-----------------------------------------------------------------------------
(* Bounds of the model *)

\* longest value handed to validate in the general specification
MaxLen == 8
\* longest compareValue handed to validate
MaxCmpLen == 2
\* longest value handed to validate("email", ...)
MaxEmailLen == 6
\* longest value handed to validate("age", ...)
MaxAgeLen == 4
\* most setTimeout callbacks pending at once
MaxTimers == 2

-----------------------------------------------------------------------------
(* Strings *)

\* the characters String.prototype.trim strips and \s matches (those modelled)
WhiteSpace == {" ", "\t", "\n"}

Digits == {"0", "1", "2", "3", "4", "5", "6", "7", "8", "9"}

StrsUpTo(alphabet, n) == UNION {[1..k -> alphabet] : k \in 0..n}

RECURSIVE TrimStart(_)
TrimStart(s) ==
    IF s = <<>> \/ Head(s) \notin WhiteSpace THEN s ELSE TrimStart(Tail(s))

RECURSIVE TrimEnd(_)
TrimEnd(s) ==
    IF s = <<>> \/ s[Len(s)] \notin WhiteSpace THEN s
    ELSE TrimEnd(SubSeq(s, 1, Len(s) - 1))

\* String.prototype.trim
trim(s) == TrimEnd(TrimStart(s))

\* an optional argument or a property that may be absent
Undefined == [defined |-> FALSE]
Some(v) == [defined |-> TRUE, v |-> v]

\* formData.<key>: the own property, undefined when the key is absent
Prop(formData, key) ==
    IF key \in DOMAIN formData THEN Some(formData[key]) ELSE Undefined

-----------------------------------------------------------------------------
(* ValidationResult *)

Valid == [isValid |-> TRUE]
Fail(message) == [isValid |-> FALSE, error |-> message]
\* the call did not return: it raised this exception
Threw(exception) == [threw |-> exception]

-----------------------------------------------------------------------------
(* Rule predicates *)

\* isRequired(message).validate
isRequired(value) == Len(trim(value)) > 0

\* minLength(min, message).validate
MinLengthOnTrimmed(min, value) == Len(trim(value)) >= min
minLength(min, value) == Len(value) >= min

(* A regular expression is a sequence of items, each a literal character or  *)
(* a class repeated one or more times (+) or exactly n times ({n});          *)
(* RegexTest is RegExp.prototype.test of an expression anchored at both ends *)
(* (^ ... $, no flags).                                                      *)
NotSpaceNorAt(c) == c \notin WhiteSpace /\ c # "@"
IsDigit(c) == c \in Digits

InClass(cls, c) ==
    CASE cls = "[^\\s@]" -> NotSpaceNorAt(c)
      [] cls = "\\d" -> IsDigit(c)

Lit(c) == [kind |-> "lit", ch |-> c, cls |-> "", n |-> 1]
Plus(cls) == [kind |-> "plus", ch |-> "", cls |-> cls, n |-> 1]
Times(cls, n) == [kind |-> "times", ch |-> "", cls |-> cls, n |-> n]

RECURSIVE MatchHere(_, _, _, _)
MatchHere(re, i, s, j) ==
    IF i > Len(re) THEN j = Len(s) + 1
    ELSE LET item == re[i] IN
         CASE item.kind = "lit" ->
                  /\ j <= Len(s)
                  /\ s[j] = item.ch
                  /\ MatchHere(re, i + 1, s, j + 1)
           [] item.kind = "plus" ->
                  \E k \in (j + 1)..(Len(s) + 1) :
                      /\ \A p \in j..(k - 1) : InClass(item.cls, s[p])
                      /\ MatchHere(re, i + 1, s, k)
           [] item.kind = "times" ->
                  /\ j + item.n <= Len(s) + 1
                  /\ \A p \in j..(j + item.n - 1) : InClass(item.cls, s[p])
                  /\ MatchHere(re, i + 1, s, j + item.n)

RegexTest(re, s) == MatchHere(re, 1, s, 1)

\* /^[^\s@]+@[^\s@]+\.[^\s@]+$/
emailRegex == <<Plus("[^\\s@]"), Lit("@"), Plus("[^\\s@]"), Lit("."), Plus("[^\\s@]")>>
\* /^\d{10}$/
phoneRegex == <<Times("\\d", 10)>>

\* isEmail(message).validate
IsEmailUnanchored(value) ==
    \E a \in 1..(Len(value) + 1) : \E b \in (a - 1)..Len(value) :
        RegexTest(emailRegex, SubSeq(value, a, b))
isEmail(value) == RegexTest(emailRegex, value)

\* validationRules.phone[1].validate
isPhone(value) == RegexTest(phoneRegex, value)

-----------------------------------------------------------------------------
(* Number(v): ToNumber applied to a string (StringToNumber).                 *)
(* The result is NaN or the decimal (-1)^neg * m * 10^e.  Leading and        *)
(* trailing white space is stripped; the empty string is 0; otherwise the    *)
(* text must be  [+-] digits [. digits] [e [+-] digits]  with at least one   *)
(* digit in the mantissa.  The literals Infinity, 0x.., 0o.., 0b.. need      *)
(* letters no value of the model contains.                                   *)

NaN == [nan |-> TRUE, neg |-> FALSE, m |-> 0, e |-> 0]
Num(neg, m, e) == [nan |-> FALSE, neg |-> neg, m |-> m, e |-> e]

DigitValue(c) ==
    CASE c = "0" -> 0 [] c = "1" -> 1 [] c = "2" -> 2 [] c = "3" -> 3
      [] c = "4" -> 4 [] c = "5" -> 5 [] c = "6" -> 6 [] c = "7" -> 7
      [] c = "8" -> 8 [] c = "9" -> 9

\* how many digits s holds from position i on
RECURSIVE DigitRun(_, _)
DigitRun(s, i) ==
    IF i <= Len(s) /\ s[i] \in Digits THEN 1 + DigitRun(s, i + 1) ELSE 0

\* the value of the digits s[i .. i+n-1] appended to the value acc
RECURSIVE DigitsValue(_, _, _, _)
DigitsValue(s, i, n, acc) ==
    IF n = 0 THEN acc ELSE DigitsValue(s, i + 1, n - 1, 10 * acc + DigitValue(s[i]))

\* the exponent part, from position ePos on, of a literal whose mantissa has
\* the value mantissa and nFrac digits after the dot
ExponentPart(u, neg, mantissa, nFrac, ePos, expAt) ==
    LET hasExp == ePos <= Len(u)
        nExp == DigitRun(u, expAt)
        expAbs == DigitsValue(u, expAt, nExp, 0)
    IN  IF ~hasExp THEN Num(neg, mantissa, 0 - nFrac)
        ELSE IF u[ePos] \in {"e", "E"} /\ nExp >= 1 /\ expAt + nExp = Len(u) + 1
            THEN Num(neg, mantissa,
                     (IF u[expAt - 1] = "-" THEN 0 - expAbs ELSE expAbs) - nFrac)
        ELSE NaN

\* the literal from its mantissa's end ePos on: nothing, or e [+-] digits
AfterMantissa(u, neg, mantissa, nDigits, nFrac, ePos) ==
    IF nDigits = 0 THEN NaN
    ELSE ExponentPart(u, neg, mantissa, nFrac, ePos,
                      IF ePos + 1 <= Len(u) /\ u[ePos + 1] \in {"+", "-"}
                      THEN ePos + 2 ELSE ePos + 1)

\* the literal after its nInt integer digits: nothing, or . digits
AfterInteger(u, neg, nInt, intValue, nFrac) ==
    AfterMantissa(u, neg, DigitsValue(u, nInt + 2, nFrac, intValue),
                  nInt + nFrac, nFrac,
                  IF nInt + 1 <= Len(u) /\ u[nInt + 1] = "."
                  THEN nInt + 2 + nFrac ELSE nInt + 1)

IntegerPart(u, neg, nInt) ==
    AfterInteger(u, neg, nInt, DigitsValue(u, 1, nInt, 0),
                 IF nInt + 1 <= Len(u) /\ u[nInt + 1] = "."
                 THEN DigitRun(u, nInt + 2) ELSE 0)

StrUnsignedDecimalLiteral(u, neg) == IntegerPart(u, neg, DigitRun(u, 1))

StringToNumber(t) ==
    IF t = <<>> THEN Num(FALSE, 0, 0)
    ELSE StrUnsignedDecimalLiteral(IF Head(t) \in {"+", "-"} THEN Tail(t) ELSE t,
                                   Head(t) = "-")

Number(v) == StringToNumber(trim(v))

isNaN(n) == n.nan

Pow10(k) == CASE k = 0 -> 1 [] k = 1 -> 10 [] k = 2 -> 100 [] k = 3 -> 1000
              [] k = 4 -> 10000 [] k = 5 -> 100000 [] k = 6 -> 1000000

Sign(d) == IF d < 0 THEN -1 ELSE IF d > 0 THEN 1 ELSE 0

(* The order of a number n (not NaN) and an integer k, 0 <= k < 1000: -1, 0  *)
(* or 1 as n < k, n = k, n > k.  A mantissa has fewer than 7 digits, so a    *)
(* positive m * 10^e is above k once e >= 3 and below any k >= 1 once        *)
(* e <= -7; the products computed stay below 2^31.                           *)
NumCompare(n, k) ==
    IF n.m = 0 THEN Sign(0 - k)
    ELSE IF n.neg THEN -1
    ELSE IF n.e >= 3 THEN 1
    ELSE IF n.e >= 0 THEN Sign(n.m * Pow10(n.e) - k)
    ELSE IF n.e <= -7 THEN (IF k = 0 THEN 1 ELSE -1)
    ELSE Sign(n.m - k * Pow10(0 - n.e))

\* n > k and n < k of JavaScript: false when n is NaN
NumGreater(n, k) == ~n.nan /\ NumCompare(n, k) = 1
NumLess(n, k) == ~n.nan /\ NumCompare(n, k) = -1

\* validationRules.age[1].validate, on n = Number(v)
AgeInclusive(n) == ~isNaN(n) /\ NumGreater(n, 0) /\ ~NumGreater(n, 120)
AgeInRange(n) == ~isNaN(n) /\ NumGreater(n, 0) /\ NumLess(n, 120)
isAge(v) == AgeInRange(Number(v))

-----------------------------------------------------------------------------
(* The rule tables *)

Rule(kind, min, message) == [kind |-> kind, min |-> min, errorMessage |-> message]

\* rule.validate(value, compareValue): no predicate reads compareValue
RuleValidate(rule, value, compareValue) ==
    CASE rule.kind = "isRequired" -> isRequired(value)
      [] rule.kind = "minLength" -> minLength(rule.min, value)
      [] rule.kind = "isEmail" -> isEmail(value)
      [] rule.kind = "phone" -> isPhone(value)
      [] rule.kind = "age" -> isAge(value)

BaseRules ==
    [username |-> <<Rule("isRequired", 0, "Username is required"),
                    Rule("minLength", 3, "Username must be at least 3 characters")>>,
     email |-> <<Rule("isRequired", 0, "Email is required"),
                 Rule("isEmail", 0, "Please enter a valid email address")>>,
     password |-> <<Rule("isRequired", 0, "Password is required"),
                    Rule("minLength", 8, "Password must be at least 8 characters")>>,
     confirmPassword |-> <<Rule("isRequired", 0, "Please confirm your password")>>,
     name |-> <<Rule("isRequired", 0, "Name is required"),
                Rule("minLength", 2, "Name must be at least 2 characters")>>]

ExtendedOnlyRules ==
    [phone |-> <<Rule("isRequired", 0, "Phone number is required"),
                 Rule("phone", 0, "Phone number must be 10 digits")>>,
     address |-> <<Rule("isRequired", 0, "Address is required"),
                   Rule("minLength", 5, "Address must be at least 5 characters")>>,
     age |-> <<Rule("isRequired", 0, "Age is required"),
               Rule("age", 0, "Please enter a valid age")>>]

\* the object literal validationRules of the loaded variant
validationRules ==
    IF variant = "base" THEN BaseRules
    ELSE [t \in DOMAIN BaseRules \cup DOMAIN ExtendedOnlyRules |->
             IF t \in DOMAIN BaseRules THEN BaseRules[t] ELSE ExtendedOnlyRules[t]]

(* validationRules is an object literal, so validationRules[type] walks its  *)
(* prototype chain: a key of Object.prototype yields that property (a        *)
(* function, or Object.prototype itself for "__proto__"), which is truthy    *)
(* and not iterable; any other absent key yields undefined.                  *)
ObjectPrototypeKeys ==
    {"constructor", "toString", "valueOf", "hasOwnProperty", "__proto__"}

RulesOf(type) ==
    IF type \in DOMAIN validationRules
        THEN [kind |-> "array", rules |-> validationRules[type]]
    ELSE IF type \in ObjectPrototypeKeys
        THEN [kind |-> "inherited", rules |-> <<>>]
    ELSE [kind |-> "undefined", rules |-> <<>>]

-----------------------------------------------------------------------------
(* validate *)

\* the branch taken for confirmPassword when compareValue is defined
ConfirmTrimmedMatch(value, compareValue) ==
    IF Len(trim(value)) = 0 THEN Fail("Please confirm your password")
    ELSE IF trim(value) # trim(compareValue) THEN Fail("Passwords do not match")
    ELSE Valid
ConfirmAgainst(value, compareValue) ==
    IF Len(trim(value)) = 0 THEN Fail("Please confirm your password")
    ELSE IF value # compareValue THEN Fail("Passwords do not match")
    ELSE Valid

\* for (const rule of rules): the first rule from index i on that fails
RECURSIVE RunRules(_, _, _, _)
RunRules(rules, i, value, compareValue) ==
    IF i > Len(rules) THEN Valid
    ELSE IF ~RuleValidate(rules[i], value, compareValue)
         THEN Fail(rules[i].errorMessage)
         ELSE RunRules(rules, i + 1, value, compareValue)

validate(type, value, compareValue) ==
    LET found == RulesOf(type) IN
    IF found.kind = "undefined"
        THEN Fail("Unknown validation type: " \o type)
    ELSE IF type = "confirmPassword" /\ compareValue.defined
        THEN ConfirmAgainst(value, compareValue.v)
    ELSE IF found.kind = "inherited"
        THEN Threw("TypeError: rules is not iterable")
    ELSE RunRules(found.rules, 1, value, compareValue)

-----------------------------------------------------------------------------
(* getValidationType, validateForm, isFormValid *)

getValidationType(fieldName) ==
    IF fieldName \in {"username", "email", "password", "confirmPassword"}
        THEN fieldName
    ELSE IF variant = "extended" /\ fieldName \in {"phone", "address", "age"}
        THEN fieldName
    ELSE "name"

\* the four field names the base validateForm enumerates
EnumeratedFields == {"username", "email", "password", "confirmPassword"}

validateFormBase(formData) ==
    [k \in EnumeratedFields \cap DOMAIN formData |->
        IF k = "confirmPassword"
        THEN validate("confirmPassword", formData[k], Prop(formData, "password"))
        ELSE validate(k, formData[k], Undefined)]

validateFormExtended(formData) ==
    [k \in DOMAIN formData |->
        LET type == getValidationType(k)
            compareValue == IF type = "confirmPassword"
                            THEN Prop(formData, "password") ELSE Undefined
        IN  validate(type, formData[k], compareValue)]

validateForm(formData) ==
    IF variant = "base" THEN validateFormBase(formData)
    ELSE validateFormExtended(formData)

\* Object.values(results), in some order of the keys
RECURSIVE ObjectValues(_)
ObjectValues(results) ==
    IF DOMAIN results = {} THEN <<>>
    ELSE LET k == CHOOSE x \in DOMAIN results : TRUE
         IN  <<results[k]>> \o
             ObjectValues([x \in DOMAIN results \ {k} |-> results[x]])

\* Array.prototype.every / some with the callback (r) => r.isValid
RECURSIVE EveryIsValid(_, _)
EveryIsValid(values, i) ==
    IF i > Len(values) THEN TRUE
    ELSE IF ~values[i].isValid THEN FALSE
    ELSE EveryIsValid(values, i + 1)

RECURSIVE SomeIsValid(_, _)
SomeIsValid(values, i) ==
    IF i > Len(values) THEN FALSE
    ELSE IF values[i].isValid THEN TRUE
    ELSE SomeIsValid(values, i + 1)

IsFormValidSome(validationResults) == SomeIsValid(ObjectValues(validationResults), 1)
isFormValid(validationResults) == EveryIsValid(ObjectValues(validationResults), 1)

-----------------------------------------------------------------------------
(* The page: the inputs of the registration form.  Every input's id is its   *)
(* name (the submit handler finds the field of an entry by "#<fieldName>"),  *)
(* and form.reset() gives every input its default value, the empty string.   *)

InputNames == {"password", "confirmPassword", "fullName"}
DefaultValue == <<>>

NoCall == [fn |-> "none"]
NoReturn == [none |-> TRUE]
Return(v) == [value |-> v]

\* the DOM as the page loads: nothing typed, no state class, no error text,
\* the success message hidden, no timer set
InitDom ==
    /\ inputs = [i \in InputNames |-> [value |-> DefaultValue, classes |-> {}]]
    /\ errorText = [i \in InputNames |-> ""]
    /\ successHidden = TRUE
    /\ timers = <<>>
    /\ lastEvent = "load"

\* the page as loaded, with either adapter and either validation module
Init ==
    /\ variant \in {"base", "extended"}
    /\ adapter \in {"script", "part_001"}
    /\ missingErrorEl \in {{}, {"confirmPassword"}}
    /\ call = NoCall
    /\ ret = NoReturn
    /\ InitDom

-----------------------------------------------------------------------------
(* Direct calls of the exported functions: the arguments are drawn when the  *)
(* behaviour starts, and the one step of the behaviour is the call.          *)

\* the validation module alone, about to be called with the arguments in call
InitModule(calls) ==
    /\ variant \in {"base", "extended"}
    /\ adapter = "script"
    /\ missingErrorEl = {}
    /\ call \in calls
    /\ ret = NoReturn
    /\ InitDom

ValidateCall(type, value, compareValue) ==
    [fn |-> "validate", type |-> type, value |-> value, compareValue |-> compareValue]

CallValidate ==
    /\ call.fn = "validate"
    /\ ret = NoReturn
    /\ ret' = Return(validate(call.type, call.value, call.compareValue))
    /\ UNCHANGED <<variant, adapter, call, domVars>>

CallValidateForm ==
    /\ call.fn = "validateForm"
    /\ ret = NoReturn
    /\ ret' = Return(validateForm(call.formData))
    /\ UNCHANGED <<variant, adapter, call, domVars>>

CallIsFormValid ==
    /\ call.fn = "isFormValid"
    /\ ret = NoReturn
    /\ ret' = Return(isFormValid(call.validationResults))
    /\ UNCHANGED <<variant, adapter, call, domVars>>

\* the inputs of the calls
KnownTypes == {"username", "email", "password", "confirmPassword", "name",
               "phone", "address", "age"}
OtherTypes == {"nickname", "", "toString", "constructor"}
PlainValues == StrsUpTo({"a", " "}, MaxLen)
CompareValues == {Undefined} \cup {Some(c) : c \in StrsUpTo({"a", " "}, MaxCmpLen)}
EmailValues == StrsUpTo({"a", "@", ".", " "}, MaxEmailLen)
AgeValues == StrsUpTo({"0", "1", "2", "5", "9", "-", ".", "e", " ", "a"}, MaxAgeLen)

ValidateCalls ==
    {ValidateCall(type, value, compareValue) :
        type \in KnownTypes \cup OtherTypes, value \in PlainValues,
        compareValue \in CompareValues}
EmailCalls ==
    {ValidateCall("email", value, compareValue) :
        value \in EmailValues, compareValue \in {Undefined, Some(<<"a">>)}}
AgeCalls ==
    {ValidateCall("age", value, compareValue) :
        value \in AgeValues, compareValue \in {Undefined, Some(<<"a">>)}}

\* validateForm: every subset of five field names, each with one of four values
FormFieldNames == {"username", "email", "password", "confirmPassword", "fullName"}
FormValues == {<<>>, <<"a", "b">>, <<"a", "@", "b", ".", "c">>,
               <<"a", "b", "c", "d", "e", "f", "g", "h">>}
FormDatas == UNION {[keys -> FormValues] : keys \in SUBSET FormFieldNames}
FormCalls == {[fn |-> "validateForm", formData |-> formData] : formData \in FormDatas}

\* isFormValid: results that validate never builds (a failure with no error,
\* a success with one) are included
ResultValues == {Valid, Fail("some error"), [isValid |-> FALSE],
                 [isValid |-> TRUE, error |-> "some error"]}
ResultSets ==
    UNION {[keys -> ResultValues] : keys \in SUBSET {"username", "email", "password"}}
IsFormValidCalls ==
    {[fn |-> "isFormValid", validationResults |-> results] : results \in ResultSets}

SpecValidate == InitModule(ValidateCalls) /\ [][CallValidate]_vars
SpecEmail == InitModule(EmailCalls) /\ [][CallValidate]_vars
SpecAge == InitModule(AgeCalls) /\ [][CallValidate]_vars
NextForm == CallValidateForm \/ CallIsFormValid
SpecForm == InitModule(FormCalls \cup IsFormValidCalls) /\ [][NextForm]_vars

-----------------------------------------------------------------------------
(* The form adapter: the handlers of blur, input and submit, and the timer   *)

\* getFormData(): data[input.name] = input.value for every input
getFormData == [i \in InputNames |-> inputs[i].value]

\* result.error as a condition: the field is there and not the empty string
HasError(result) == "error" \in DOMAIN result /\ result.error # ""

\* updateFieldUI(field, result): the field's classes afterwards
ClassesAfter(field, result) ==
    IF field \in missingErrorEl THEN inputs[field].classes
    ELSE IF ~result.isValid /\ HasError(result)
        THEN (inputs[field].classes \cup {"error"}) \ {"success"}
    ELSE (inputs[field].classes \ {"error"}) \cup {"success"}

\* updateFieldUI(field, result): the text of the field's error element afterwards
ErrorTextAfter(field, result) ==
    IF field \in missingErrorEl THEN errorText[field]
    ELSE IF ~result.isValid /\ HasError(result) THEN result.error
    ELSE ""

\* validateField(field) when the field holds value: the result it displays
FieldResult(field, value, formData) ==
    LET type == getValidationType(field)
        compareValue == IF type = "confirmPassword"
                        THEN Prop(formData, "password") ELSE Undefined
    IN  validate(type, value, compareValue)

\* the values a user gives an input
TypedValues == {<<>>, <<"a">>, <<"a", "b", "c", "d", "e", "f", "g", "h">>}

\* updateFieldUI(field, result), the field holding value
UpdateFieldUI(field, value, result) ==
    /\ inputs' = [inputs EXCEPT
                     ![field] = [value |-> value,
                                 classes |-> ClassesAfter(field, result)]]
    /\ errorText' = [errorText EXCEPT ![field] = ErrorTextAfter(field, result)]

\* blur: validateField(input)
Blur(field) ==
    /\ UpdateFieldUI(field, inputs[field].value,
                     FieldResult(field, inputs[field].value, getFormData))
    /\ lastEvent' = "blur"
    /\ UNCHANGED <<variant, adapter, call, ret, missingErrorEl, successHidden, timers>>

\* the user changes the input's value to "value"; the input event's handler
\* validates the field when it carries the class "error"
Input(field, value) ==
    /\ value # inputs[field].value
    /\ IF "error" \in inputs[field].classes
       THEN UpdateFieldUI(field, value,
                          FieldResult(field, value,
                                      [getFormData EXCEPT ![field] = value]))
       ELSE /\ inputs' = [inputs EXCEPT ![field].value = value]
            /\ UNCHANGED errorText
    /\ lastEvent' = "input"
    /\ UNCHANGED <<variant, adapter, call, ret, missingErrorEl, successHidden, timers>>

\* successMessage's "hidden" class when the submit handler ends
HiddenKeptOnFailure(isValid) == IF isValid THEN FALSE ELSE successHidden
HiddenAfterSubmit(isValid) == ~isValid

(* A pending timer is a record: latest says whether it was started by the    *)
(* last successful submit so far (by the submit that showed the message last)*)
(* All timers have the same delay, so they fire in the order they were set.  *)
TimersAfterSubmit(isValid) ==
    IF isValid
    THEN Append([k \in 1..Len(timers) |-> [latest |-> FALSE]], [latest |-> TRUE])
    ELSE timers

\* the inputs and error texts once the submit handler has shown every result
\* and, when the form is valid, reset the form
InputsAfterSubmit(results, isValid) ==
    [i \in InputNames |->
        IF isValid THEN [value |-> DefaultValue, classes |-> {}]
        ELSE IF i \in DOMAIN results
            THEN [value |-> inputs[i].value, classes |-> ClassesAfter(i, results[i])]
        ELSE inputs[i]]

ErrorTextAfterSubmit(results, isValid) ==
    [i \in InputNames |->
        IF isValid /\ adapter = "part_001" /\ i \notin missingErrorEl THEN ""
        ELSE IF i \in DOMAIN results THEN ErrorTextAfter(i, results[i])
        ELSE errorText[i]]

\* the submit handler, given validationResults and isValid
SubmitEnds(validationResults, isValid) ==
    /\ isValid => Len(timers) < MaxTimers
    /\ inputs' = InputsAfterSubmit(validationResults, isValid)
    /\ errorText' = ErrorTextAfterSubmit(validationResults, isValid)
    /\ successHidden' = HiddenAfterSubmit(isValid)
    /\ timers' = TimersAfterSubmit(isValid)
    /\ lastEvent' = "submit"
    /\ UNCHANGED <<variant, adapter, call, ret, missingErrorEl>>

SubmitWith(validationResults) ==
    SubmitEnds(validationResults, isFormValid(validationResults))

Submit == SubmitWith(validateForm(getFormData))

\* the oldest timer fires: successMessage.classList.add("hidden")
TimerFires ==
    /\ timers # <<>>
    /\ successHidden' = TRUE
    /\ timers' = Tail(timers)
    /\ lastEvent' = "timer"
    /\ UNCHANGED <<variant, adapter, call, ret, inputs, errorText, missingErrorEl>>

Next ==
    \/ \E field \in InputNames : Blur(field)
    \/ \E field \in InputNames, value \in TypedValues : Input(field, value)
    \/ Submit
    \/ TimerFires

Spec == Init /\ [][Next]_vars

-----------------------------------------------------------------------------
(* Properties of validate *)

Returned == ret # NoReturn
ValidateReturned == call.fn = "validate" /\ Returned

\* every character of the value is white space (the value trims to "")
Blank(value) == \A i \in 1..Len(value) : value[i] \in WhiteSpace

RequiredMessageOf(type) ==
    CASE type = "username" -> "Username is required"
      [] type = "password" -> "Password is required"
      [] type = "name" -> "Name is required"
      [] type = "address" -> "Address is required"

TooShortMessageOf(type) ==
    CASE type = "username" -> "Username must be at least 3 characters"
      [] type = "password" -> "Password must be at least 8 characters"
      [] type = "name" -> "Name must be at least 2 characters"
      [] type = "address" -> "Address must be at least 5 characters"

MinimumOf(type) ==
    CASE type = "username" -> 3 [] type = "password" -> 8
      [] type = "name" -> 2 [] type = "address" -> 5

\* the types the loaded variant declares
DeclaredTypes ==
    IF variant = "base"
    THEN {"username", "email", "password", "confirmPassword", "name"}
    ELSE {"username", "email", "password", "confirmPassword", "name",
          "phone", "address", "age"}

\* the rules of a declared type that the value fails, by their place in the
\* type's declared sequence, and the first of them
FailingRules(type, value) ==
    {i \in 1..Len(validationRules[type]) :
        ~RuleValidate(validationRules[type][i], value, Undefined)}

FirstFailingRule(type, value) ==
    validationRules[type][CHOOSE i \in FailingRules(type, value) :
                             \A j \in FailingRules(type, value) : i <= j]

(* C2: on the generic path validate returns the message of the first failing *)
(* rule: for username / password / name (and address in the extended         *)
(* variant) a blank value fails with the "required" message, else a value    *)
(* whose untrimmed length is below the minimum fails with the minimum-length *)
(* message, else the value is valid; confirmPassword without a compareValue  *)
(* fails (with "Please confirm your password") exactly when it is blank.     *)
C2_GenericPath ==
    ValidateReturned =>
        /\ (/\ call.type \in DeclaredTypes
            /\ ~(call.type = "confirmPassword" /\ call.compareValue.defined))
           => ret.value = IF FailingRules(call.type, call.value) = {} THEN Valid
                          ELSE Fail(FirstFailingRule(call.type, call.value).errorMessage)
        /\ (\/ call.type \in {"username", "password", "name"}
            \/ (call.type = "address" /\ variant = "extended"))
           => ret.value = IF Blank(call.value)
                              THEN Fail(RequiredMessageOf(call.type))
                          ELSE IF Len(call.value) < MinimumOf(call.type)
                              THEN Fail(TooShortMessageOf(call.type))
                          ELSE Valid
        /\ (call.type = "confirmPassword" /\ ~call.compareValue.defined)
           => ret.value = IF Blank(call.value)
                              THEN Fail("Please confirm your password")
                          ELSE Valid

\* a password of 7 characters that starts with a space is too short, not blank
C2_Witness ==
    /\ ValidateReturned
    /\ call.type = "password"
    /\ Len(call.value) = 7
    /\ call.value[1] = " "
    /\ ret.value = Fail("Password must be at least 8 characters")

(* C3: confirmPassword with a defined compareValue: a blank value fails with *)
(* "Please confirm your password" (also when compareValue is blank too),     *)
(* else a value that differs from compareValue in any character fails with   *)
(* "Passwords do not match", else the value is valid.                        *)
C3_ConfirmPassword ==
    (ValidateReturned /\ call.type = "confirmPassword" /\ call.compareValue.defined)
        => ret.value = IF Blank(call.value)
                           THEN Fail("Please confirm your password")
                       ELSE IF \/ Len(call.value) # Len(call.compareValue.v)
                               \/ \E i \in 1..Len(call.value) :
                                      call.value[i] # call.compareValue.v[i]
                           THEN Fail("Passwords do not match")
                       ELSE Valid

\* "" confirmed against "": the emptiness check comes first
C3_Witness ==
    /\ ValidateReturned
    /\ call.type = "confirmPassword"
    /\ call.value = <<>>
    /\ call.compareValue = Some(<<>>)
    /\ ret.value = Fail("Please confirm your password")

(* C4: validate never raises: for every type string that is not a declared   *)
(* ValidationType, whatever the value and compareValue, it returns           *)
(* {isValid: false, error: "Unknown validation type: <type>"}.               *)
C4_UnknownTypeFails ==
    (ValidateReturned /\ call.type \notin DeclaredTypes)
        => ret.value = Fail("Unknown validation type: " \o call.type)

\* exactly one "@", something before it, and after it a "." with something on
\* each side; no white space anywhere
EmailShaped(value) ==
    /\ \A i \in 1..Len(value) : value[i] \notin WhiteSpace
    /\ Cardinality({i \in 1..Len(value) : value[i] = "@"}) = 1
    /\ LET at == CHOOSE i \in 1..Len(value) : value[i] = "@"
       IN  /\ at > 1
           /\ \E dot \in (at + 2)..(Len(value) - 1) : value[dot] = "."

(* C6: validate("email", value) fails with "Email is required" when value is *)
(* blank; otherwise it succeeds exactly when value has no white space, one   *)
(* "@" with a character before it and, after it, a "." with a character on   *)
(* each side; otherwise it fails with "Please enter a valid email address".  *)
C6_Email ==
    (ValidateReturned /\ call.type = "email")
        => ret.value = IF Blank(call.value) THEN Fail("Email is required")
                       ELSE IF EmailShaped(call.value) THEN Valid
                       ELSE Fail("Please enter a valid email address")

\* "a@.a.a" is accepted: the dot that counts is the second one
C6_Witness ==
    /\ ValidateReturned
    /\ call.type = "email"
    /\ call.value = <<"a", "@", ".", "a", ".", "a">>
    /\ ret.value = Valid

\* the value of a string of digits, most significant first
RECURSIVE DecimalValue(_)
DecimalValue(digits) ==
    IF digits = <<>> THEN 0
    ELSE 10 * DecimalValue(SubSeq(digits, 1, Len(digits) - 1))
         + DigitValue(digits[Len(digits)])

AllDigits(value) == value # <<>> /\ \A i \in 1..Len(value) : value[i] \in Digits

(* C7: in the extended variant validate("age", value) fails with "Age is     *)
(* required" when value is blank; otherwise it succeeds exactly when value   *)
(* parses as a number n with 0 < n < 120, and fails with "Please enter a     *)
(* valid age" when it does not parse or n is out of range: "0", "120",       *)
(* "150" and negative numbers fail, "1" and "119" succeed, and a string of   *)
(* digits succeeds exactly when its value is one of 1 .. 119.                *)
C7_Age ==
    (ValidateReturned /\ call.type = "age" /\ variant = "extended")
        => /\ ret.value = IF Blank(call.value) THEN Fail("Age is required")
                          ELSE IF /\ ~isNaN(Number(call.value))
                                  /\ NumGreater(Number(call.value), 0)
                                  /\ NumLess(Number(call.value), 120)
                              THEN Valid
                          ELSE Fail("Please enter a valid age")
           /\ AllDigits(call.value)
                => (ret.value = Valid <=> DecimalValue(call.value) \in 1..119)
           /\ call.value \in {<<"0">>, <<"1", "2", "0">>, <<"1", "5", "0">>,
                              <<"-", "1">>, <<"-", "5">>, <<"a">>}
                => ret.value = Fail("Please enter a valid age")
           /\ call.value \in {<<"1">>, <<"1", "1", "9">>} => ret.value = Valid

\* "119" is a valid age
C7_Witness ==
    /\ ValidateReturned
    /\ call.type = "age"
    /\ variant = "extended"
    /\ call.value = <<"1", "1", "9">>
    /\ ret.value = Valid

-----------------------------------------------------------------------------
(* Properties of validateForm and isFormValid *)

ValidateFormReturned == call.fn = "validateForm" /\ Returned
IsFormValidReturned == call.fn = "isFormValid" /\ Returned

(* C1: the keys of validateForm(formData) are exactly the keys of formData:  *)
(* every field of the input, whatever its name, gets an entry, and no absent *)
(* field gets one.                                                           *)
C1_OneEntryPerField ==
    ValidateFormReturned => DOMAIN ret.value = DOMAIN call.formData

(* C5: isFormValid(results) is true exactly when every entry has isValid     *)
(* true: true for the empty mapping, false as soon as one entry is invalid,  *)
(* whatever the error fields hold.                                           *)
C5_IsFormValid ==
    IsFormValidReturned =>
        /\ ret.value = TRUE <=>
              {k \in DOMAIN call.validationResults :
                  call.validationResults[k].isValid = FALSE} = {}
        /\ DOMAIN call.validationResults = {} => ret.value = TRUE

\* two valid entries and one invalid one: not valid
C5_Witness ==
    /\ IsFormValidReturned
    /\ call.validationResults =
          [username |-> Valid, email |-> [isValid |-> FALSE], password |-> Valid]
    /\ ret.value = FALSE

(* C10: the confirmPassword entry of validateForm(formData) is valid exactly *)
(* when formData.confirmPassword is not blank and equals formData.password;  *)
(* without a password key it is never valid.                                 *)
C10_ConfirmNeedsPassword ==
    (ValidateFormReturned /\ "confirmPassword" \in DOMAIN call.formData)
        => (ret.value["confirmPassword"].isValid <=>
               /\ ~Blank(call.formData["confirmPassword"])
               /\ "password" \in DOMAIN call.formData
               /\ call.formData["confirmPassword"] = call.formData["password"])

-----------------------------------------------------------------------------
(* Properties of the form adapter *)

\* this step is the handling of a submit event (only Submit sets lastEvent so)
SubmitStep == lastEvent' = "submit"

\* the form held values that validate, when the submit event came
SubmittedValid == isFormValid(validateForm(getFormData))

(* C8: when a submit event has been handled, the success message is visible  *)
(* exactly if isFormValid(validateForm(the inputs' values at the submit));   *)
(* a submit with an invalid entry leaves the message hidden, every value as  *)
(* it was and no input stripped of its state class; a valid submit resets    *)
(* every value and strips "success" and "error" from every input.            *)
C8_SubmitOutcome ==
    [][SubmitStep =>
          /\ successHidden' = ~SubmittedValid
          /\ ~SubmittedValid =>
                \A i \in InputNames :
                    /\ inputs'[i].value = inputs[i].value
                    /\ inputs[i].classes # {} => inputs'[i].classes # {}
          /\ SubmittedValid =>
                \A i \in InputNames :
                    /\ inputs'[i].value = DefaultValue
                    /\ inputs'[i].classes = {}]_vars

\* a failing submit has hidden the message that a valid submit had shown and
\* whose timer is still pending
C8_Witness ==
    /\ lastEvent = "submit"
    /\ successHidden
    /\ timers # <<>>
    /\ \E i \in InputNames : "error" \in inputs[i].classes

(* C9: the success message a successful submit shows stays visible until the *)
(* timer started by that same submit fires, unless a failing submit hides it *)
(* first: a timer started by an earlier successful submit never hides the    *)
(* message shown by a later one.                                             *)
C9_OnlyOwnTimerHides ==
    [][(~successHidden /\ successHidden')
          => (SubmitStep \/ (timers # <<>> /\ Head(timers).latest))]_vars

(* C11: from a form with no state class and empty error elements, after any  *)
(* sequence of blur, input and submit events, every input that has an error  *)
(* element shows a non-empty error text exactly when it carries the class    *)
(* "error", and no input carries both "error" and "success"; so after a      *)
(* successful submit no input carries "error" and every error element is     *)
(* empty, also for the inputs validateForm gave no entry.                    *)
C11_ErrorTextMatchesClass ==
    \A i \in InputNames :
        /\ i \notin missingErrorEl
             => (errorText[i] # "" <=> "error" \in inputs[i].classes)
        /\ ~({"error", "success"} \subseteq inputs[i].classes)

=============================================================================
